---- MODULE Spec2Model ----
(***************************************************************************)
(* Model of gistapi/gistapi.py: the /api/v1/search handler `search`, the   *)
(* listing helper `gists_for_user`, and the requests_cache layer installed *)
(* at import time, as a state machine over concurrent request handlers.    *)
(***************************************************************************)
EXTENDS Integers, Sequences, FiniteSets, TLC

(* ------------------------------------------------------------------ *)
(* Bounds of the model                                                *)
(* ------------------------------------------------------------------ *)
\* seconds that pass in one Tick of the wall clock
TickSec == 200
\* number of Ticks the clock may make
MaxTicks == 2

(* ------------------------------------------------------------------ *)
(* Program constants                                                  *)
(* ------------------------------------------------------------------ *)
\* requests_cache.install_cache(..., expire_after=300)
ExpireAfter == 300
\* the only status either call site accepts
HTTP_OK == 200

\* request handlers that may be in flight at once (Flask serves threaded)
Reqs == {1, 2}

\* marks a key that a JSON object / dict does not have
Absent == "<absent>"

Users == {"alice", "bob"}

\* pattern strings a client may send
Patterns == {"foo", "[o]", "["}

\* the characters of a pattern or text string
Chars(s) ==
  CASE s = "foo" -> <<"f", "o", "o">>
    [] s = "[o]" -> <<"[", "o", "]">>
    [] s = "["   -> <<"[">>
    [] s = "Foo" -> <<"F", "o", "o">>
    [] s = "bar" -> <<"b", "a", "r">>
    [] OTHER     -> <<>>

(* ------------------------------------------------------------------ *)
(* re.compile(pattern, re.MULTILINE | re.IGNORECASE) and findall      *)
(* ------------------------------------------------------------------ *)
\* what Compile yields when re.compile raises re.error
ReError == <<{"re.error"}>>

\* re.IGNORECASE folds case before comparing
Lower(c) ==
  CASE c = "F" -> "f"
    [] c = "O" -> "o"
    [] c = "B" -> "b"
    [] c = "A" -> "a"
    [] c = "R" -> "r"
    [] OTHER   -> c

\* Parse cs[i..] into a sequence of character sets, one per pattern
\* position.  "[" opens a set that runs to the next "]" (a "]" that is the
\* first member is a literal); a set that is never closed is an re.error.
\* inset = 0: outside a set; inset = 1: just after "["; inset = 2: inside.
RECURSIVE ParseFrom(_, _, _, _, _)
ParseFrom(cs, i, inset, cur, acc) ==
  IF i > Len(cs)
    THEN IF inset = 0 THEN acc ELSE ReError
    ELSE IF inset = 0
      THEN IF cs[i] = "["
             THEN ParseFrom(cs, i + 1, 1, {}, acc)
             ELSE ParseFrom(cs, i + 1, 0, {}, Append(acc, {Lower(cs[i])}))
      ELSE IF cs[i] = "]" /\ inset = 2
             THEN ParseFrom(cs, i + 1, 0, {}, Append(acc, cur))
             ELSE ParseFrom(cs, i + 1, 2, cur \cup {Lower(cs[i])}, acc)

\* re.compile: the compiled matcher, or ReError when the pattern is invalid
Compile(p) == ParseFrom(Chars(p), 1, 0, {}, <<>>)

CompileOK(p) == Compile(p) # ReError

\* regex_pattern.findall(text): the start positions at which the matcher
\* matches (only their number is used by the caller)
FindAll(matcher, text) ==
  LET cs == Chars(text)
  IN {i \in 1..Len(cs) :
        /\ i + Len(matcher) - 1 <= Len(cs)
        /\ \A k \in 1..Len(matcher) : Lower(cs[i + k - 1]) \in matcher[k]}

(* ------------------------------------------------------------------ *)
(* Upstream (api.github.com / raw content host), as the handler sees  *)
(* it through requests.get                                            *)
(* ------------------------------------------------------------------ *)
\* 'https://api.github.com/users/{username}/gists'.format(username=username)
GistsUrl(u) == <<"https://api.github.com/users", u, "gists">>

\* f"https://gist.github.com/{username}/{gist['id']}"
PublicUrl(u, id) == <<"https://gist.github.com", u, id>>

\* a gist record of the listing: its id and the raw_url of each of its files
Gist(id, raws) == [id |-> id, files |-> raws]

GA == Gist("A", {"rawA"})
GB == Gist("B", {"rawB"})
GC == Gist("C", {"rawC"})
\* a gist without files, and one with two files
GZ == Gist("Z", {})
GM == Gist("M", {"rawM1", "rawM2"})

\* the JSON arrays a 200 listing response may carry
Listings == {<<>>, <<GA, GB, GC>>, <<GA, GA>>, <<GZ, GM>>}

\* a response of the listing endpoint: 200 with a JSON array, or another
\* status with a JSON object holding a message
ListingResponses ==
  {[status |-> HTTP_OK, message |-> Absent, data |-> l] : l \in Listings}
  \cup {[status |-> 404, message |-> "Not Found", data |-> <<>>],
        [status |-> 403, message |-> "API rate limit exceeded", data |-> <<>>]}

NoResponse == [status |-> 0, message |-> Absent, data |-> <<>>]

\* what the raw content host answers for a raw_url
RawResponse(url) ==
  CASE url = "rawA" -> [status |-> HTTP_OK, text |-> "Foo"]
    [] url = "rawB" -> [status |-> HTTP_OK, text |-> "bar"]
    [] url = "rawC" -> [status |-> 404, text |-> ""]
    [] OTHER        -> [status |-> HTTP_OK, text |-> "bar"]

(* ------------------------------------------------------------------ *)
(* Request bodies and results                                         *)
(* ------------------------------------------------------------------ *)
\* request.get_json(): a JSON object with any subset of the two keys
Bodies ==
  {[username |-> u, pattern |-> p] :
     u \in Users \cup {Absent}, p \in Patterns \cup {Absent}}

\* `'k' in post_data`
Has(b, k) == b[k] # Absent

\* `if post_data:` -- a dict is true exactly when it has a key
Truthy(b) == Has(b, "username") \/ Has(b, "pattern")

NoResult ==
  [keys |-> {}, status |-> Absent, message |-> Absent,
   username |-> Absent, pattern |-> Absent, matches |-> <<>>]

\* jsonify({'status': 'failed', 'message': m})
FailedMessage(m) ==
  [keys |-> {"status", "message"}, status |-> "failed", message |-> m,
   username |-> Absent, pattern |-> Absent, matches |-> <<>>]

\* gists_for_user returning its success message on the failure path too
gists_for_user_fixed_msg(resp) ==
  [is_successful |-> resp.status = HTTP_OK, msg |-> "Successful",
   data |-> resp.data]

\* gists_for_user: (is_successful, msg, data) from the listing response
gists_for_user(resp) ==
  IF resp.status = HTTP_OK
    THEN [is_successful |-> TRUE, msg |-> "Successful", data |-> resp.data]
    ELSE [is_successful |-> FALSE, msg |-> resp.message, data |-> resp.data]

\* hash(gist): every element of the listing is a dict, and a dict is
\* unhashable
Hashable(gist) == FALSE

\* set(data) raises TypeError as soon as the list holds an unhashable element
SetRaises(d) == \E i \in DOMAIN d : ~Hashable(d[i])

\* the dict built at lines 101-104 and 106-110
FullResult(st, m, u, p, ms) ==
  [keys |-> IF m = Absent
              THEN {"status", "username", "pattern", "matches"}
              ELSE {"status", "message", "username", "pattern", "matches"},
   status |-> st, message |-> m, username |-> u, pattern |-> p, matches |-> ms]

(* ------------------------------------------------------------------ *)
(* The response cache (requests_cache.install_cache)                  *)
(* ------------------------------------------------------------------ *)
ListingUrls == {GistsUrl(u) : u \in Users}

NoEntry == [present |-> FALSE, response |-> NoResponse, expires |-> 0]

\* an entry stored at time t expires expire_after seconds later
Entry(resp, t) == [present |-> TRUE, response |-> resp, expires |-> t + ExpireAfter]

\* a cache whose entries never expire
IsExpiredNever(e, t) == FALSE

\* an entry is expired once the clock has reached its expiry time
IsExpired(e, t) == t >= e.expires

\* the cache serves a call from an entry that is present and not expired
Fresh(e, t) == e.present /\ ~IsExpired(e, t)

\* only responses with an allowable status code (200) are stored
Cacheable(resp) == resp.status = HTTP_OK

(* ------------------------------------------------------------------ *)
(* State                                                              *)
(* ------------------------------------------------------------------ *)
VARIABLES
  pc,            \* where each handler is
  post_data,     \* request.get_json()
  username,      \* local of search
  pattern,       \* local of search
  response,      \* what requests.get(gists_url) returned
  regex_pattern, \* local of search: the compiled matcher
  match_list,    \* local of search
  result,        \* the JSON the handler returned
  raised,        \* the exception that left the handler, if any
  cache,         \* the installed cache: url -> entry
  now,           \* wall clock, seconds
  hits,          \* url -> number of calls that reached upstream
  calls,         \* per handler: number of requests.get calls it made
  after,         \* per handler: the handlers that had ended when it began
  callAt,        \* per handler: time of its listing call
  gotAt,         \* per handler: time its listing response arrived
  viaUpstream    \* per handler: its listing call reached upstream

locals == <<post_data, username, pattern, response, regex_pattern,
            match_list, result, raised>>
history == <<calls, after, callAt, gotAt, viaUpstream>>
vars == <<pc, locals, cache, now, hits, history>>

Terminal == {"done", "fault"}

NoMatcher == <<{"None"}>>

Init ==
  /\ pc = [r \in Reqs |-> "idle"]
  /\ post_data = [r \in Reqs |-> [username |-> Absent, pattern |-> Absent]]
  /\ username = [r \in Reqs |-> Absent]
  /\ pattern = [r \in Reqs |-> Absent]
  /\ response = [r \in Reqs |-> NoResponse]
  /\ regex_pattern = [r \in Reqs |-> NoMatcher]
  /\ match_list = [r \in Reqs |-> <<>>]
  /\ result = [r \in Reqs |-> NoResult]
  /\ raised = [r \in Reqs |-> "none"]
  /\ cache = [u \in ListingUrls |-> NoEntry]
  /\ now = 0
  /\ hits = [u \in ListingUrls |-> 0]
  /\ calls = [r \in Reqs |-> 0]
  /\ after = [r \in Reqs |-> {}]
  /\ callAt = [r \in Reqs |-> 0]
  /\ gotAt = [r \in Reqs |-> 0]
  /\ viaUpstream = [r \in Reqs |-> FALSE]

\* the other handler
Other(r) == CHOOSE s \in Reqs : s # r

\* lines 106-110 with the request's data kept in state shared by all handlers
ResultFailedShared(r) ==
  FullResult("failed", gists_for_user(response[r]).msg,
             username[Other(r)], pattern[Other(r)], <<>>)

\* lines 106-110: the result of a failed listing call
ResultFailed(r) ==
  FullResult("failed", gists_for_user(response[r]).msg,
             username[r], pattern[r], <<>>)

\* lines 101-104: the result of a search that ran to its end
ResultSuccess(r) ==
  FullResult("success", Absent, username[r], pattern[r], match_list[r])

\* a request arrives at an idle handler
Arrive(r, b) ==
  /\ pc[r] = "idle"
  /\ b \in Bodies
  /\ post_data' = [post_data EXCEPT ![r] = b]
  /\ after' = [after EXCEPT ![r] = {s \in Reqs : pc[s] \in Terminal}]

\* lines 69-70, 113-114: the body is falsy
InvalidParameters(r, b) ==
  /\ Arrive(r, b)
  /\ ~Truthy(b)
  /\ result' = [result EXCEPT ![r] = FailedMessage("Invalid parameters")]
  /\ pc' = [pc EXCEPT ![r] = "done"]
  /\ UNCHANGED <<username, pattern, response, regex_pattern, match_list, raised,
                 cache, now, hits, calls, callAt, gotAt, viaUpstream>>

\* lines 69-76: a key is missing
MissingField(r, b) ==
  /\ Arrive(r, b)
  /\ Truthy(b)
  /\ ~Has(b, "username") \/ ~Has(b, "pattern")
  /\ result' = [result EXCEPT ![r] =
                  IF ~Has(b, "username")
                    THEN FailedMessage("username is required")
                    ELSE FailedMessage("pattern is required")]
  /\ pc' = [pc EXCEPT ![r] = "done"]
  /\ UNCHANGED <<username, pattern, response, regex_pattern, match_list, raised,
                 cache, now, hits, calls, callAt, gotAt, viaUpstream>>

\* lines 69-81: both keys are there
Accept(r, b) ==
  /\ Arrive(r, b)
  /\ Truthy(b)
  /\ Has(b, "username") /\ Has(b, "pattern")
  /\ username' = [username EXCEPT ![r] = b.username]
  /\ pattern' = [pattern EXCEPT ![r] = b.pattern]
  /\ pc' = [pc EXCEPT ![r] = "call"]
  /\ UNCHANGED <<response, regex_pattern, match_list, result, raised,
                 cache, now, hits, calls, callAt, gotAt, viaUpstream>>

\* lines 44-48: requests.get(gists_url), served by the cache
ListingFromCache(r) ==
  /\ pc[r] = "call"
  /\ Fresh(cache[GistsUrl(username[r])], now)
  /\ response' = [response EXCEPT ![r] = cache[GistsUrl(username[r])].response]
  /\ calls' = [calls EXCEPT ![r] = @ + 1]
  /\ callAt' = [callAt EXCEPT ![r] = now]
  /\ gotAt' = [gotAt EXCEPT ![r] = now]
  /\ pc' = [pc EXCEPT ![r] = "got"]
  /\ UNCHANGED <<post_data, username, pattern, regex_pattern, match_list, result,
                 raised, cache, now, hits, after, viaUpstream>>

\* lines 44-48: requests.get(gists_url), no usable entry: the call goes
\* upstream and the handler is suspended
ListingSent(r) ==
  /\ pc[r] = "call"
  /\ ~Fresh(cache[GistsUrl(username[r])], now)
  /\ hits' = [hits EXCEPT ![GistsUrl(username[r])] = @ + 1]
  /\ calls' = [calls EXCEPT ![r] = @ + 1]
  /\ callAt' = [callAt EXCEPT ![r] = now]
  /\ viaUpstream' = [viaUpstream EXCEPT ![r] = TRUE]
  /\ pc' = [pc EXCEPT ![r] = "awaiting"]
  /\ UNCHANGED <<locals, cache, now, after, gotAt>>

\* line 48: upstream answers; the cache stores an allowable response
ListingReceived(r, resp) ==
  /\ pc[r] = "awaiting"
  /\ resp \in ListingResponses
  /\ response' = [response EXCEPT ![r] = resp]
  /\ cache' = IF Cacheable(resp)
                THEN [cache EXCEPT ![GistsUrl(username[r])] = Entry(resp, now)]
                ELSE cache
  /\ gotAt' = [gotAt EXCEPT ![r] = now]
  /\ pc' = [pc EXCEPT ![r] = "got"]
  /\ UNCHANGED <<post_data, username, pattern, regex_pattern, match_list, result,
                 raised, now, hits, calls, after, callAt, viaUpstream>>

\* lines 51-54, 83-84, 105-112: the listing call failed
ListingFailed(r) ==
  /\ pc[r] = "got"
  /\ ~gists_for_user(response[r]).is_successful
  /\ result' = [result EXCEPT ![r] = ResultFailed(r)]
  /\ pc' = [pc EXCEPT ![r] = "done"]
  /\ UNCHANGED <<post_data, username, pattern, response, regex_pattern, match_list,
                 raised, cache, now, hits, history>>

\* lines 85-86: re.compile raises re.error, which leaves the handler
CompileRaises(r) ==
  /\ pc[r] = "got"
  /\ gists_for_user(response[r]).is_successful
  /\ ~CompileOK(pattern[r])
  /\ match_list' = [match_list EXCEPT ![r] = <<>>]
  /\ raised' = [raised EXCEPT ![r] = "re.error"]
  /\ pc' = [pc EXCEPT ![r] = "fault"]
  /\ UNCHANGED <<post_data, username, pattern, response, regex_pattern, result,
                 cache, now, hits, history>>

\* lines 85-86: re.compile returns the matcher
CompileReturns(r) ==
  /\ pc[r] = "got"
  /\ gists_for_user(response[r]).is_successful
  /\ CompileOK(pattern[r])
  /\ match_list' = [match_list EXCEPT ![r] = <<>>]
  /\ regex_pattern' = [regex_pattern EXCEPT ![r] = Compile(pattern[r])]
  /\ pc' = [pc EXCEPT ![r] = "compiled"]
  /\ UNCHANGED <<post_data, username, pattern, response, result, raised,
                 cache, now, hits, history>>

\* line 87: set(data) raises TypeError, which leaves the handler
DedupRaises(r) ==
  /\ pc[r] = "compiled"
  /\ SetRaises(gists_for_user(response[r]).data)
  /\ raised' = [raised EXCEPT ![r] = "TypeError"]
  /\ pc' = [pc EXCEPT ![r] = "fault"]
  /\ UNCHANGED <<post_data, username, pattern, response, regex_pattern, match_list,
                 result, cache, now, hits, history>>

\* lines 87, 101-104, 112: set(data) is empty, the loop body does not run
NoGists(r) ==
  /\ pc[r] = "compiled"
  /\ ~SetRaises(gists_for_user(response[r]).data)
  /\ result' = [result EXCEPT ![r] = ResultSuccess(r)]
  /\ pc' = [pc EXCEPT ![r] = "done"]
  /\ UNCHANGED <<post_data, username, pattern, response, regex_pattern, match_list,
                 raised, cache, now, hits, history>>

\* time passes
Tick ==
  /\ now < MaxTicks * TickSec
  /\ now' = now + TickSec
  /\ UNCHANGED <<pc, locals, cache, hits, history>>

Next ==
  \/ \E r \in Reqs, b \in Bodies : InvalidParameters(r, b)
  \/ \E r \in Reqs, b \in Bodies : MissingField(r, b)
  \/ \E r \in Reqs, b \in Bodies : Accept(r, b)
  \/ \E r \in Reqs : ListingFromCache(r)
  \/ \E r \in Reqs : ListingSent(r)
  \/ \E r \in Reqs, resp \in ListingResponses : ListingReceived(r, resp)
  \/ \E r \in Reqs : ListingFailed(r)
  \/ \E r \in Reqs : CompileRaises(r)
  \/ \E r \in Reqs : CompileReturns(r)
  \/ \E r \in Reqs : DedupRaises(r)
  \/ \E r \in Reqs : NoGists(r)
  \/ Tick

Spec == Init /\ [][Next]_vars

(* ------------------------------------------------------------------ *)
(* Properties                                                         *)
(* ------------------------------------------------------------------ *)
Ended(r) == pc[r] \in Terminal

\* how a handler ended: with which result, or with which exception
Outcome(r) == <<pc[r], result[r], raised[r]>>

\* the handler has both keys in its body
HasBoth(r) == Has(post_data[r], "username") /\ Has(post_data[r], "pattern")

\* the handler ended after a 200 listing response, with a valid pattern
SearchedListing(r) ==
  /\ Ended(r)
  /\ HasBoth(r)
  /\ response[r].status = HTTP_OK
  /\ CompileOK(post_data[r].pattern)

\* the one raw_url of a gist with exactly one file
RawUrlOf(gist) == CHOOSE u \in gist.files : TRUE

SingleFile(d) == \A i \in DOMAIN d : Cardinality(d[i].files) = 1

DuplicateIds(d) == \E i, j \in DOMAIN d : i # j /\ d[i].id = d[j].id

NoRepeat(seq) == \A i, j \in DOMAIN seq : i # j => seq[i] # seq[j]

\* the public URLs, in listing order, of the gists whose raw content is
\* fetched with status 200 and matches
RECURSIVE ExpectedMatches(_, _, _)
ExpectedMatches(u, matcher, d) ==
  IF d = <<>> THEN <<>>
  ELSE LET raw == RawResponse(RawUrlOf(Head(d)))
           rest == ExpectedMatches(u, matcher, Tail(d))
       IN IF raw.status = HTTP_OK /\ FindAll(matcher, raw.text) # {}
            THEN <<PublicUrl(u, Head(d).id)>> \o rest
            ELSE rest

\* C1: a request whose body lacks `username` ends with
\* {status: failed, message: "username is required"}, one that has
\* `username` but lacks `pattern` with "pattern is required", and in both
\* cases the handler has made no outbound call; the empty object included.
C1_MissingFieldReported ==
  \A r \in Reqs :
    Ended(r) =>
      /\ ~Has(post_data[r], "username") =>
           /\ Outcome(r) = <<"done", FailedMessage("username is required"), "none">>
           /\ calls[r] = 0
      /\ Has(post_data[r], "username") /\ ~Has(post_data[r], "pattern") =>
           /\ Outcome(r) = <<"done", FailedMessage("pattern is required"), "none">>
           /\ calls[r] = 0

\* C2: once the listing call has returned a non-200 status the handler makes
\* no further outbound call and compiles no pattern, and it ends by returning
\* status "failed" with the upstream message verbatim, the request's username
\* and pattern, and empty matches.
C2_ListingFailureReported ==
  \A r \in Reqs :
    (response[r] \in ListingResponses /\ response[r].status # HTTP_OK) =>
      /\ calls[r] = 1
      /\ regex_pattern[r] = NoMatcher
      /\ match_list[r] = <<>>
      /\ pc[r] \in {"got", "done"}
      /\ pc[r] = "done" =>
           result[r] = FullResult("failed", response[r].message,
                                  post_data[r].username, post_data[r].pattern, <<>>)

C2_Witness ==
  \E r \in Reqs :
    /\ pc[r] = "done"
    /\ response[r].status = 404
    /\ result[r].message = "Not Found"
    /\ result[r].username = "alice"

\* C4: a request with both keys and a pattern that is not a valid regular
\* expression ends by returning a result with status "failed" and a message;
\* the compile error never leaves the handler.
C4_InvalidPatternReported ==
  \A r \in Reqs :
    (Ended(r) /\ HasBoth(r) /\ ~CompileOK(post_data[r].pattern)) =>
      /\ pc[r] = "done"
      /\ result[r].status = "failed"
      /\ "message" \in result[r].keys

\* C5: after a 200 listing response in which an id occurs twice, the search
\* returns, and its matches hold no URL twice.
C5_DedupById ==
  \A r \in Reqs :
    (SearchedListing(r) /\ DuplicateIds(response[r].data)) =>
      /\ pc[r] = "done"
      /\ NoRepeat(result[r].matches)

\* C6: after a 200 listing response of single-file gists with distinct ids,
\* and with a valid pattern, the returned matches are exactly the public URLs
\* of the gists that were fetched with status 200 and matched, in listing
\* order.
C6_MatchesInListingOrder ==
  \A r \in Reqs :
    (/\ SearchedListing(r)
     /\ SingleFile(response[r].data)
     /\ ~DuplicateIds(response[r].data)) =>
      /\ pc[r] = "done"
      /\ result[r].matches =
           ExpectedMatches(post_data[r].username, Compile(post_data[r].pattern),
                           response[r].data)

\* C7: when the raw content of a gist of the listing answers with a non-200
\* status, the search still ends with status "success" and without a message.
C7_FetchFailureSkipped ==
  \A r \in Reqs :
    (/\ SearchedListing(r)
     /\ SingleFile(response[r].data)
     /\ ~DuplicateIds(response[r].data)
     /\ \E i \in DOMAIN response[r].data :
          RawResponse(RawUrlOf(response[r].data[i])).status # HTTP_OK) =>
      /\ pc[r] = "done"
      /\ result[r].status = "success"
      /\ "message" \notin result[r].keys

\* C8: after a 200 listing response that holds a gist with no file or with
\* more than one file, the search ends by returning a result; no exception
\* leaves the handler.
C8_AnyFileCountReturns ==
  \A r \in Reqs :
    (SearchedListing(r) /\ ~SingleFile(response[r].data)) =>
      /\ pc[r] = "done"
      /\ result[r].status \in {"success", "failed"}

\* the second of two requests, r2, began after r1 had ended, and both have
\* made their listing call for the same user
Successive(r1, r2) ==
  /\ r1 \in after[r2]
  /\ calls[r1] > 0 /\ calls[r2] > 0
  /\ username[r1] = username[r2]

\* r2 made its listing call less than the cache window after r1's response
InWindow(r1, r2) == callAt[r2] - gotAt[r1] < ExpireAfter

RunAlone(b, resp) ==
  IF ~Truthy(b)
    THEN <<"done", FailedMessage("Invalid parameters"), "none">>
  ELSE IF ~Has(b, "username")
    THEN <<"done", FailedMessage("username is required"), "none">>
  ELSE IF ~Has(b, "pattern")
    THEN <<"done", FailedMessage("pattern is required"), "none">>
  ELSE IF resp.status # HTTP_OK
    THEN <<"done", FullResult("failed", resp.message, b.username, b.pattern, <<>>),
           "none">>
  ELSE IF ~CompileOK(b.pattern)
    THEN <<"fault", NoResult, "re.error">>
  ELSE IF Len(resp.data) > 0
    THEN <<"fault", NoResult, "TypeError">>
  ELSE <<"done", FullResult("success", Absent, b.username, b.pattern, <<>>), "none">>

\* the working data of one handler
LocalsOf(r) ==
  <<post_data[r], username[r], pattern[r], response[r], regex_pattern[r],
    match_list[r], result[r], raised[r]>>

\* C10: under every interleaving of the handlers, a handler ends as it would
\* have run alone on its own body and its own listing response, its result
\* names its own username and pattern, and a step that is not the handler's
\* own leaves its working data unchanged.
C10_RequestScoped ==
  /\ [](\A r \in Reqs :
          Ended(r) =>
            /\ Outcome(r) = RunAlone(post_data[r], response[r])
            /\ "username" \in result[r].keys =>
                 /\ result[r].username = post_data[r].username
                 /\ result[r].pattern = post_data[r].pattern)
  /\ [][\A r \in Reqs : pc'[r] = pc[r] => LocalsOf(r)' = LocalsOf(r)]_vars

C10_Witness ==
  \E r, s \in Reqs :
    /\ r # s
    /\ r \notin after[s]
    /\ s \notin after[r]
    /\ pc[r] = "done"
    /\ "username" \in result[r].keys
    /\ pc[s] \in {"awaiting", "got", "compiled"}
    /\ username[s] # username[r]
    /\ viaUpstream[r]

====
